---- MODULE Spec2Model ----
(***************************************************************************)
(* A model of the power-sum quACK of thearossman/sidekick:                 *)
(*   src/quack/src/quack_internal/psum.rs   PowerSumQuack                  *)
(*   src/quack/src/decoded_quack.rs         DecodedQuack                   *)
(* The field arithmetic (arithmetic/modint.rs) and the polynomial          *)
(* evaluator (arithmetic/evaluator.rs) are declared in src/quack/src/lib.rs*)
(* but their files are absent; they are modelled from spec.md 4.1 and 4.2. *)
(***************************************************************************)
EXTENDS Integers, Sequences, FiniteSets, TLC

(***************************************************************************)
(* Bounds of the model.                                                    *)
(***************************************************************************)
MaxT == 3          \* thresholds range over 1..MaxT
MaxId == 5         \* identifiers range over 0..MaxId (MaxId >= P: collisions)
MaxOps == 3        \* insert/remove calls made on the two sketches together
MaxLog == 2        \* longest identifier log handed to a decoder
MaxBuf == 3        \* longest coefficient buffer handed to the converter
MaxTrace == 3      \* insert/remove calls made on the sketch of SpecOrder
MaxMissing == 2    \* identifiers inserted into the sketch of SpecDecoded
MaxDLog == 3       \* longest identifier log handed to DecodedQuack::decode
MaxWire == 2       \* insert/remove calls made on the sketch of SpecWire
MaxWireLog == 1    \* longest identifier log handed to a decoder in SpecWire
MaxSeqno == 4      \* the server receives sequence numbers 0..MaxSeqno
MaxTime == 2       \* the server's clock takes the values 0..MaxTime
MaxRtt == 1        \* the server's --rtt argument ranges over 0..MaxRtt

(***************************************************************************)
(* Program constants.                                                      *)
(***************************************************************************)
\* The modulus of ModularInteger.  The program's p is 4294967291; the model
\* computes in GF(5) so that the field, and with it every collision of two
\* identifiers mod p, can be enumerated.
P == 5
\* The largest value of `count: u16`.
U16Max == 65535

Ids == 0..MaxId
Field == 0..(P - 1)
Thresholds == {t \in 1..MaxT : t < P}

(***************************************************************************)
(* ModularInteger (spec.md 4.1).                                           *)
(***************************************************************************)
MNew(v) == v % P
MZero == 0
MAdd(a, b) == (a + b) % P
MSub(a, b) == (a + P - b) % P
MNeg(a) == (P - a) % P
MMul(a, b) == (a * b) % P

RECURSIVE MPow(_, _)
MPow(a, e) == IF e = 0 THEN 1 ELSE MMul(a, MPow(a, e - 1))

\* a.inv(): Fermat's little theorem, a^(p-2).
MInv(a) == MPow(a, P - 2)

(***************************************************************************)
(* MonicPolynomialEvaluator::eval (spec.md 4.2): Horner's rule from an     *)
(* implicit leading 1.  coeffs is a sequence of field elements.            *)
(***************************************************************************)
RECURSIVE eval_loop(_, _, _, _)
eval_loop(coeffs, x, r, i) ==
    IF i > Len(coeffs) THEN r
    ELSE eval_loop(coeffs, x, MAdd(MMul(r, x), coeffs[i]), i + 1)

eval(coeffs, x) == eval_loop(coeffs, MNew(x), 1, 1)

(***************************************************************************)
(* PowerSumQuack.  A sketch is a record                                    *)
(*   [inverse_table, power_sums, count]                                    *)
(* with the two tables as sequences (index k+1 holds the code's index k).  *)
(* An operation that can panic returns [q |-> sketch as the panic or the   *)
(* return leaves it, panicked |-> BOOLEAN].                                *)
(*                                                                         *)
(* `checks` is the build's overflow-checks setting: `self.count += 1` and  *)
(* `self.count -= 1` panic on overflow when it is on (cargo's dev and test *)
(* profiles) and wrap modulo 2^16 when it is off (the release profile).    *)
(***************************************************************************)
modular_inverse_table(size) == [i \in 1..size |-> MInv(MNew(i))]

new(size) ==
    [inverse_table |-> modular_inverse_table(size),
     power_sums |-> [i \in 1..size |-> MZero],
     count |-> 0]

threshold(q) == Len(q.power_sums)

\* insert's loop without `y *= x`: every power sum gets x, not x^(k+1).
RECURSIVE insert_loop_stale_power(_, _, _, _)
insert_loop_stale_power(ps, x, y, i) ==
    IF i >= Len(ps) - 1 THEN [ps |-> ps, y |-> y]
    ELSE insert_loop_stale_power([ps EXCEPT ![i + 1] = MAdd(@, y)], x, y, i + 1)

\* The loop `for i in 0..(size-1) { power_sums[i] += y; y *= x; }` of insert,
\* from iteration i on; returns the sums and the running product y.
RECURSIVE insert_loop(_, _, _, _)
insert_loop(ps, x, y, i) ==
    IF i >= Len(ps) - 1 THEN [ps |-> ps, y |-> y]
    ELSE insert_loop([ps EXCEPT ![i + 1] = MAdd(@, y)], x, MMul(y, x), i + 1)

insert(q, value, checks) ==
    LET size == Len(q.power_sums)
        x == MNew(value)
        r == insert_loop(q.power_sums, x, x, 0)
        ps == [r.ps EXCEPT ![size] = MAdd(@, r.y)]
    IN  IF q.count = U16Max /\ checks
        THEN [q |-> [q EXCEPT !.power_sums = ps], panicked |-> TRUE]
        ELSE [q |-> [q EXCEPT !.power_sums = ps,
                              !.count = (q.count + 1) % (U16Max + 1)],
              panicked |-> FALSE]

RECURSIVE remove_loop(_, _, _, _)
remove_loop(ps, x, y, i) ==
    IF i >= Len(ps) - 1 THEN [ps |-> ps, y |-> y]
    ELSE remove_loop([ps EXCEPT ![i + 1] = MSub(@, y)], x, MMul(y, x), i + 1)

\* remove without its last statement on the sums, `power_sums[size - 1] -= y`.
remove_keeps_last_sum(q, value, checks) ==
    LET x == MNew(value)
        r == remove_loop(q.power_sums, x, x, 0)
    IN  IF q.count = 0 /\ checks
        THEN [q |-> [q EXCEPT !.power_sums = r.ps], panicked |-> TRUE]
        ELSE [q |-> [q EXCEPT !.power_sums = r.ps,
                              !.count = (q.count + U16Max) % (U16Max + 1)],
              panicked |-> FALSE]

remove(q, value, checks) ==
    LET size == Len(q.power_sums)
        x == MNew(value)
        r == remove_loop(q.power_sums, x, x, 0)
        ps == [r.ps EXCEPT ![size] = MSub(@, r.y)]
    IN  IF q.count = 0 /\ checks
        THEN [q |-> [q EXCEPT !.power_sums = ps], panicked |-> TRUE]
        ELSE [q |-> [q EXCEPT !.power_sums = ps,
                              !.count = (q.count + U16Max) % (U16Max + 1)],
              panicked |-> FALSE]

\* sub_assign without its assert_eq! on the lengths: the loop runs over self's
\* sums and panics at the first index rhs does not have.
sub_assign_no_len_assert(self, rhs) ==
    LET n == IF Len(rhs.power_sums) < Len(self.power_sums)
             THEN Len(rhs.power_sums) ELSE Len(self.power_sums)
        ps == [i \in 1..Len(self.power_sums) |->
                  IF i <= n THEN MSub(self.power_sums[i], rhs.power_sums[i])
                  ELSE self.power_sums[i]]
    IN  IF ~(self.count >= rhs.count) THEN [q |-> self, panicked |-> TRUE]
        ELSE IF Len(rhs.power_sums) < Len(self.power_sums)
        THEN [q |-> [self EXCEPT !.power_sums = ps], panicked |-> TRUE]
        ELSE [q |-> [self EXCEPT !.power_sums = ps,
                                 !.count = self.count - rhs.count],
              panicked |-> FALSE]

\* sub_assign with the assert! on the counts placed after the loop.
sub_assign_late_count_assert(self, rhs) ==
    LET ps == [i \in 1..Len(self.power_sums) |->
                  MSub(self.power_sums[i], rhs.power_sums[i])]
    IN  IF Len(self.power_sums) # Len(rhs.power_sums)
        THEN [q |-> self, panicked |-> TRUE]
        ELSE IF ~(self.count >= rhs.count)
        THEN [q |-> [self EXCEPT !.power_sums = ps], panicked |-> TRUE]
        ELSE [q |-> [self EXCEPT !.power_sums = ps,
                                 !.count = self.count - rhs.count],
              panicked |-> FALSE]

\* SubAssign::sub_assign: the two assertions, then the loop, then the count.
sub_assign(self, rhs) ==
    IF Len(self.power_sums) # Len(rhs.power_sums)
    THEN [q |-> self, panicked |-> TRUE]
    ELSE IF ~(self.count >= rhs.count)
    THEN [q |-> self, panicked |-> TRUE]
    ELSE [q |-> [self EXCEPT
                   !.power_sums = [i \in 1..Len(self.power_sums) |->
                                     MSub(self.power_sums[i], rhs.power_sums[i])],
                   !.count = self.count - rhs.count],
          panicked |-> FALSE]

\* Sub::sub: `let mut result = self; result -= rhs; result`.
sub(self, rhs) == sub_assign(self, rhs)

(***************************************************************************)
(* Newton converter.  to_coeffs_preallocated returns                       *)
(*   [coeffs |-> the caller's buffer as the call leaves it, panicked]      *)
(* An index past the end of a Vec panics (Rust bounds checks).             *)
(***************************************************************************)
\* `for j in 0..i { coeffs[i] = coeffs[i] - power_sums[j] * coeffs[i-j-1]; }`
RECURSIVE newton_inner(_, _, _, _)
newton_inner(ps, c, i, j) ==
    IF j >= i THEN [coeffs |-> c, panicked |-> FALSE]
    ELSE IF j >= Len(ps) THEN [coeffs |-> c, panicked |-> TRUE]
    ELSE newton_inner(ps,
                      [c EXCEPT ![i + 1] = MSub(@, MMul(ps[j + 1], c[i - j]))],
                      i, j + 1)

\* `for i in 1..size { ...; coeffs[i] -= power_sums[i]; coeffs[i] *= inverse_table[i]; }`
RECURSIVE newton_outer(_, _, _)
newton_outer(q, c, i) ==
    IF i >= Len(c) THEN [coeffs |-> c, panicked |-> FALSE]
    ELSE LET inner == newton_inner(q.power_sums, c, i, 0)
         IN  IF inner.panicked THEN inner
             ELSE IF i >= Len(q.power_sums)
             THEN [coeffs |-> inner.coeffs, panicked |-> TRUE]
             ELSE LET c1 == [inner.coeffs EXCEPT ![i + 1] = MSub(@, q.power_sums[i + 1])]
                  IN  IF i >= Len(q.inverse_table)
                      THEN [coeffs |-> c1, panicked |-> TRUE]
                      ELSE newton_outer(q,
                                        [c1 EXCEPT ![i + 1] = MMul(@, q.inverse_table[i + 1])],
                                        i + 1)

\* to_coeffs_preallocated with the loop bounded by the sketch's threshold,
\* `for i in 1..min(size, self.power_sums.len())`: entries of the buffer past
\* the threshold are left as they were and nothing panics.
to_coeffs_preallocated_clamped(q, coeffs) ==
    IF Len(q.power_sums) = 0 \/ Len(coeffs) = 0
    THEN [coeffs |-> coeffs, panicked |-> TRUE]
    ELSE LET n == IF Len(coeffs) < Len(q.power_sums)
                  THEN Len(coeffs) ELSE Len(q.power_sums)
             r == newton_outer(q, [SubSeq(coeffs, 1, n) EXCEPT ![1] = MNeg(q.power_sums[1])], 1)
         IN  [coeffs |-> r.coeffs \o SubSeq(coeffs, n + 1, Len(coeffs)),
              panicked |-> r.panicked]

to_coeffs_preallocated(q, coeffs) ==
    IF Len(q.power_sums) = 0 \/ Len(coeffs) = 0
    THEN [coeffs |-> coeffs, panicked |-> TRUE]      \* coeffs[0] = -power_sums[0]
    ELSE newton_outer(q, [coeffs EXCEPT ![1] = MNeg(q.power_sums[1])], 1)

\* to_coeffs: a zeroed buffer of count entries, converted, returned.  The
\* buffer is a local of the call: a panic returns nothing.
to_coeffs(q) ==
    LET r == to_coeffs_preallocated(q, [i \in 1..q.count |-> MZero])
    IN  IF r.panicked THEN [coeffs |-> << >>, panicked |-> TRUE] ELSE r

(***************************************************************************)
(* MonicPolynomialEvaluator::factor (spec.md 4.2): on a polynomial that    *)
(* splits into linear factors over GF(p), every root with its multiplicity *)
(* (here in increasing order); otherwise an error.                         *)
(***************************************************************************)
\* The non-leading coefficients of prod_{k} (x - roots[k]), roots a sequence
\* of field elements: multiply in one factor (x - r) at a time.
RECURSIVE MonicFromRoots(_)
MonicFromRoots(roots) ==
    IF Len(roots) = 0 THEN << >>
    ELSE LET n == Len(roots) - 1
             c == MonicFromRoots(SubSeq(roots, 1, n))
             r == roots[n + 1]
             at(k) == IF k = 0 THEN 1 ELSE c[k]
         IN  [k \in 1..(n + 1) |->
                 IF k = n + 1 THEN MNeg(MMul(r, at(n)))
                 ELSE MSub(at(k), MMul(r, at(k - 1)))]

IsSorted(s) == \A i \in 1..(Len(s) - 1) : s[i] <= s[i + 1]

factor(coeffs) ==
    LET n == Len(coeffs)
        splits == {r \in [1..n -> Field] : IsSorted(r) /\ MonicFromRoots(r) = coeffs}
    IN  IF splits = {} THEN [ok |-> FALSE, roots |-> << >>]
        ELSE [ok |-> TRUE, roots |-> CHOOSE r \in splits : TRUE]

(***************************************************************************)
(* The decoders.  `converted` records whether the call ran to_coeffs.      *)
(***************************************************************************)
decode_by_factorization(q) ==
    IF q.count = 0
    THEN [some |-> TRUE, roots |-> << >>, converted |-> FALSE, panicked |-> FALSE]
    ELSE LET c == to_coeffs(q)
         IN  IF c.panicked
             THEN [some |-> FALSE, roots |-> << >>, converted |-> TRUE, panicked |-> TRUE]
             ELSE LET f == factor(c.coeffs)
                  IN  [some |-> f.ok, roots |-> f.roots,
                       converted |-> TRUE, panicked |-> FALSE]

\* decode_with_log without `if num_missing == 0 { return vec![]; }`.
decode_with_log_no_early_return(q, log) ==
    LET c == to_coeffs(q)
    IN  IF c.panicked
        THEN [missing |-> << >>, converted |-> TRUE, panicked |-> TRUE]
        ELSE [missing |-> SelectSeq(log, LAMBDA x : eval(c.coeffs, x) = 0),
              converted |-> TRUE, panicked |-> FALSE]

decode_with_log(q, log) ==
    LET num_missing == q.count
    IN  IF num_missing = 0
        THEN [missing |-> << >>, converted |-> FALSE, panicked |-> FALSE]
        ELSE LET c == to_coeffs(q)
             IN  IF c.panicked
                 THEN [missing |-> << >>, converted |-> TRUE, panicked |-> TRUE]
                 ELSE [missing |-> SelectSeq(log, LAMBDA x : eval(c.coeffs, x) = 0),
                       converted |-> TRUE, panicked |-> FALSE]

(***************************************************************************)
(* DecodedQuack (decoded_quack.rs).  The struct borrows a sketch and a log *)
(* and owns `indexes`, here 0-based log positions in a sequence.           *)
(***************************************************************************)
\* Quack::to_polynomial_coefficients, called by DecodedQuack::decode: the
\* converter of spec.md 4.4 (its file, quack.rs, is absent).  4.4: "n=0:
\* return empty coefficient vector"; for n >= 1 the recurrence is the one
\* to_coeffs_preallocated implements.
to_polynomial_coefficients(q, coeffs) ==
    IF Len(coeffs) = 0 THEN [coeffs |-> coeffs, panicked |-> FALSE]
    ELSE to_coeffs_preallocated(q, coeffs)

\* `(0..num_packets).filter(|&i| eval(&coeffs, log[i]).is_zero()).collect()`
RECURSIVE filter_indexes(_, _, _)
filter_indexes(coeffs, log, i) ==
    IF i >= Len(log) THEN << >>
    ELSE (IF eval(coeffs, log[i + 1]) = 0 THEN <<i>> ELSE << >>)
         \o filter_indexes(coeffs, log, i + 1)

decode(quack, log) ==
    LET num_missing == quack.count
        c == to_polynomial_coefficients(quack, [i \in 1..num_missing |-> MZero])
    IN  IF c.panicked THEN [indexes |-> << >>, panicked |-> TRUE]
        ELSE [indexes |-> filter_indexes(c.coeffs, log, 0), panicked |-> FALSE]

\* The value `last` holds after `last -= 1` wrapped below 0 in a build
\* without overflow checks: usize::MAX, which is beyond TLC's integers; the
\* model keeps the largest integer TLC has, which like usize::MAX is above
\* every position of a log.
UsizeWrapped == 2147483647

\* The `while i > 0` loop of num_suffix, from the state (last, count, i).
\* `underflow` tells whether `last -= 1` was executed with last = 0.
RECURSIVE num_suffix_loop(_, _, _, _, _)
num_suffix_loop(indexes, last, count, i, checks) ==
    IF ~(i > 0)
    THEN [value |-> count, panicked |-> FALSE, underflow |-> last = UsizeWrapped]
    ELSE IF indexes[i] = last             \* self.indexes[i - 1] == last
    THEN IF last = 0
         THEN IF checks THEN [value |-> count, panicked |-> TRUE, underflow |-> TRUE]
              ELSE num_suffix_loop(indexes, UsizeWrapped, count + 1, i - 1, checks)
         ELSE num_suffix_loop(indexes, last - 1, count + 1, i - 1, checks)
    ELSE [value |-> count, panicked |-> FALSE, underflow |-> last = UsizeWrapped]

num_suffix(indexes, log, checks) ==
    IF Len(indexes) = 0 THEN [value |-> 0, panicked |-> FALSE, underflow |-> FALSE]
    ELSE num_suffix_loop(indexes, Len(log) - 1, 0, Len(indexes), checks)

total_num_missing(indexes) == Len(indexes)

num_missing(indexes, log, checks) ==
    LET s == num_suffix(indexes, log, checks)
    IN  IF s.panicked THEN [value |-> 0, panicked |-> TRUE]
        ELSE [value |-> total_num_missing(indexes) - s.value, panicked |-> FALSE]

missing(indexes, log, checks) ==
    LET s == num_suffix(indexes, log, checks)
    IN  IF s.panicked THEN [value |-> << >>, panicked |-> TRUE]
        ELSE [value |-> SubSeq(indexes, 1, total_num_missing(indexes) - s.value),
              panicked |-> FALSE]

(***************************************************************************)
(* Serialization.  PowerSumQuack derives Serialize and Deserialize with    *)
(* `#[serde(skip)]` on inverse_table; the tests serialize with bincode:    *)
(* the fields in declaration order, a Vec as its length in 8 bytes and     *)
(* then its elements, every integer little-endian at its own width.  A     *)
(* skipped field is not written and is Default::default() (the empty Vec)  *)
(* after deserialization.                                                  *)
(***************************************************************************)
\* The n little-endian bytes of v, and back.
RECURSIVE to_le_bytes(_, _)
to_le_bytes(v, n) ==
    IF n = 0 THEN << >> ELSE <<v % 256>> \o to_le_bytes(v \div 256, n - 1)

RECURSIVE from_le_bytes(_)
from_le_bytes(b) ==
    IF Len(b) = 0 THEN 0 ELSE b[1] + 256 * from_le_bytes(Tail(b))

\* ModularInteger on the wire: its value as a u32 (modint.rs is absent; the
\* width is the one test_quack_serialize expects, "ten u32 sums").
MSerialize(a) == to_le_bytes(a, 4)
MDeserialize(b) == from_le_bytes(b)

RECURSIVE serialize_sums(_, _)
serialize_sums(ps, i) ==
    IF i > Len(ps) THEN << >>
    ELSE MSerialize(ps[i]) \o serialize_sums(ps, i + 1)

\* serialize with count written as one byte (`count: u8`).
serialize_count_u8(q) ==
    to_le_bytes(Len(q.power_sums), 8)
    \o serialize_sums(q.power_sums, 1)
    \o to_le_bytes(q.count, 1) \o <<0>>

\* bincode::serialize(&quack)
serialize(q) ==
    to_le_bytes(Len(q.power_sums), 8)
    \o serialize_sums(q.power_sums, 1)
    \o to_le_bytes(q.count, 2)

\* bincode::deserialize(&bytes): [q |-> the sketch, ok |-> FALSE on an Err].
deserialize(bytes) ==
    LET n == IF Len(bytes) >= 8 THEN from_le_bytes(SubSeq(bytes, 1, 8)) ELSE 0
    IN  IF Len(bytes) < 8 \/ Len(bytes) < 8 + 4 * n + 2
        THEN [q |-> new(0), ok |-> FALSE]
        ELSE [q |-> [inverse_table |-> << >>,
                     power_sums |-> [i \in 1..n |->
                         MDeserialize(SubSeq(bytes, 8 + 4 * (i - 1) + 1, 8 + 4 * i))],
                     count |-> from_le_bytes(SubSeq(bytes, 8 + 4 * n + 1, 8 + 4 * n + 2))],
              ok |-> TRUE]

(***************************************************************************)
(* The WebRTC server (webrtc_server.rs): BufferedPackets.  A packet is a   *)
(* record [seqno, time_recv, time_nack]; an Option<Instant> is << >> for   *)
(* None and <<t>> for Some(t).  Sequence numbers are u32 in the program;   *)
(* main never passes u32::MAX (TIMEOUT_SEQNO) to recv_seqno, and below it  *)
(* no addition of the three methods overflows.                             *)
(***************************************************************************)
PacketNew(seqno) == [seqno |-> seqno, time_recv |-> << >>, time_nack |-> << >>]
is_some(o) == Len(o) > 0
is_none(o) == Len(o) = 0

\* recv_seqno without `if new_seqno < self.next_seqno { return; }`.
recv_seqno_no_early_return(next, buf, new_seqno, now) ==
    LET b1 == IF Len(buf) = 0 THEN <<PacketNew(next)>> ELSE buf
        next_seqno_to_push == b1[Len(b1)].seqno + 1
        b2 == b1 \o [i \in 1..(new_seqno + 1 - next_seqno_to_push) |->
                        PacketNew(next_seqno_to_push + i - 1)]
        hits == {i \in 1..Len(b2) : b2[i].seqno = new_seqno}
    IN  IF hits = {} THEN [buffer |-> b2, panicked |-> TRUE]
        ELSE LET i == CHOOSE h \in hits : \A h2 \in hits : h <= h2
             IN  [buffer |-> IF is_none(b2[i].time_recv)
                             THEN [b2 EXCEPT ![i].time_recv = <<now>>,
                                             ![i].time_nack = << >>]
                             ELSE b2,
                  panicked |-> FALSE]

\* recv_seqno(new_seqno, now) on (next_seqno, buffer): the buffer as the call
\* leaves it; panicked when unreachable!() is reached.
recv_seqno(next, buf, new_seqno, now) ==
    IF new_seqno < next THEN [buffer |-> buf, panicked |-> FALSE]
    ELSE LET b1 == IF Len(buf) = 0 THEN <<PacketNew(next)>> ELSE buf
             next_seqno_to_push == b1[Len(b1)].seqno + 1
             \* for seqno in next_seqno_to_push..(new_seqno + 1)
             b2 == b1 \o [i \in 1..(new_seqno + 1 - next_seqno_to_push) |->
                             PacketNew(next_seqno_to_push + i - 1)]
             hits == {i \in 1..Len(b2) : b2[i].seqno = new_seqno}
         IN  IF hits = {} THEN [buffer |-> b2, panicked |-> TRUE]
             ELSE LET i == CHOOSE h \in hits : \A h2 \in hits : h <= h2
                  IN  [buffer |-> IF is_none(b2[i].time_recv)
                                  THEN [b2 EXCEPT ![i].time_recv = <<now>>,
                                                  ![i].time_nack = << >>]
                                  ELSE b2,
                       panicked |-> FALSE]

\* pop_seqno() on (next_seqno, buffer): result is the returned Option.
pop_seqno(next, buf) ==
    IF Len(buf) > 0 /\ is_some(buf[1].time_recv)
    THEN [next_seqno |-> next + 1, buffer |-> Tail(buf), result |-> buf[1].time_recv]
    ELSE [next_seqno |-> next, buffer |-> buf, result |-> << >>]

\* send_nacks' loop with `now - *time_nack >= self.nack_frequency`.
RECURSIVE send_nacks_loop_at_rtt(_, _, _, _, _, _)
send_nacks_loop_at_rtt(buf, i, now, freq, fail, sent) ==
    IF i > Len(buf) THEN [buffer |-> buf, sent |-> sent, err |-> FALSE]
    ELSE IF is_some(buf[i].time_recv)
    THEN send_nacks_loop_at_rtt(buf, i + 1, now, freq, fail, sent)
    ELSE IF is_some(buf[i].time_nack)
    THEN IF now - buf[i].time_nack[1] >= freq
         THEN IF fail = Len(sent) + 1
              THEN [buffer |-> buf, sent |-> sent, err |-> TRUE]
              ELSE send_nacks_loop_at_rtt([buf EXCEPT ![i].time_nack = <<now>>], i + 1,
                                          now, freq, fail, Append(sent, buf[i].seqno))
         ELSE send_nacks_loop_at_rtt(buf, i + 1, now, freq, fail, sent)
    ELSE IF fail = Len(sent) + 1
         THEN [buffer |-> [buf EXCEPT ![i].time_nack = <<now>>], sent |-> sent, err |-> TRUE]
         ELSE send_nacks_loop_at_rtt([buf EXCEPT ![i].time_nack = <<now>>], i + 1,
                                     now, freq, fail, Append(sent, buf[i].seqno))

\* The loop of send_nacks from packet i on.  `sent` lists the seqnos whose
\* NACK send_to has sent; `fail` is the number of the send_to call of this
\* run that returns Err (0: none does), on which `?` returns from the loop.
RECURSIVE send_nacks_loop(_, _, _, _, _, _)
send_nacks_loop(buf, i, now, freq, fail, sent) ==
    IF i > Len(buf) THEN [buffer |-> buf, sent |-> sent, err |-> FALSE]
    ELSE IF is_some(buf[i].time_recv)
    THEN send_nacks_loop(buf, i + 1, now, freq, fail, sent)
    ELSE IF is_some(buf[i].time_nack)
    THEN IF now - buf[i].time_nack[1] > freq
         THEN IF fail = Len(sent) + 1
              THEN [buffer |-> buf, sent |-> sent, err |-> TRUE]
              ELSE send_nacks_loop([buf EXCEPT ![i].time_nack = <<now>>], i + 1,
                                   now, freq, fail, Append(sent, buf[i].seqno))
         ELSE send_nacks_loop(buf, i + 1, now, freq, fail, sent)
    ELSE IF fail = Len(sent) + 1
         THEN [buffer |-> [buf EXCEPT ![i].time_nack = <<now>>], sent |-> sent, err |-> TRUE]
         ELSE send_nacks_loop([buf EXCEPT ![i].time_nack = <<now>>], i + 1,
                              now, freq, fail, Append(sent, buf[i].seqno))

send_nacks(buf, now, freq, fail) ==
    IF Len(buf) = 0 THEN [buffer |-> buf, sent |-> << >>, err |-> FALSE]
    ELSE send_nacks_loop(buf, 1, now, freq, fail, << >>)

\* Statistics::print_statistics on `len` values: `self.values[(len as f64 *
\* 0.50) as usize]` is out of bounds when there is no value.
print_statistics(len) == [panicked |-> len = 0]

(***************************************************************************)
(* State.                                                                  *)
(*                                                                         *)
(* overflow_checks  the build's overflow-checks setting (see insert)       *)
(*                                                                         *)
(* Sender and receiver (Spec):                                             *)
(* q1, q2           the sender's and the receiver's sketch; after          *)
(*                  `q1 -= q2.clone()` q1 is the difference sketch         *)
(* net1, net2       history: how often each identifier was inserted into   *)
(*                  q1 and into q2                                         *)
(* nops             insert calls made so far                               *)
(* pc               "build" before the subtraction, "diff" after it        *)
(* status           "ok", or "panicked" once a call has panicked           *)
(* out              what the last read-only call returned                  *)
(*                                                                         *)
(* One sketch under inserts and removes (SpecOrder):                       *)
(* ot               the threshold the sketch was made with                 *)
(* trace            history: the insert and remove calls made, in order    *)
(* hist             history: hist[1] is the sketch before the first call   *)
(*                  of trace, hist[k+1] the sketch as call k left it       *)
(* ostatus          "ok" or "panicked"                                     *)
(*                                                                         *)
(* A DecodedQuack (SpecDecoded):                                           *)
(* dquack, dlog     the borrowed sketch and log                            *)
(* indexes          DecodedQuack.indexes                                   *)
(* dpc              "build", then "decoded" once decode was called         *)
(* dres             what the last accessor call returned                   *)
(* dstatus          "ok" or "panicked"                                     *)
(*                                                                         *)
(* A sketch sent over the wire (SpecWire):                                 *)
(* wq               the sender's sketch                                    *)
(* wops             insert and remove calls made on it so far              *)
(* wbytes           its serialization                                      *)
(* wcopy            the sketch deserialized from wbytes                    *)
(* wpc              "build", "sent", "received", then "diff" once the same *)
(*                  sketch was subtracted from wq and from wcopy           *)
(* wout             what the last read-only call returned on wq and on     *)
(*                  wcopy                                                  *)
(* wstatus          "ok" or "panicked" (insert, remove, subtraction)       *)
(*                                                                         *)
(* The WebRTC server (SpecServer):                                         *)
(* nack_frequency   BufferedPackets.nack_frequency (the --rtt argument)    *)
(* next_seqno       BufferedPackets.next_seqno                             *)
(* buffer           BufferedPackets.buffer, packets as records             *)
(*                  [seqno, time_recv, time_nack], an Option as << >>      *)
(*                  (None) or <<t>> (Some(t))                              *)
(* clock            the latest Instant a call was given                    *)
(* driver           "main": the calls come in the order of main's loop;    *)
(*                  "free": the three methods are called in any order      *)
(* spc              main's position: "recv", "pop" or "nack"               *)
(* scall            history: the last call and its argument                *)
(* nacks            history: the NACKs sent, in order, each with the time  *)
(*                  passed to send_nacks and the seqnos received by then   *)
(* recvd            history: the seqnos marked received so far             *)
(* popped           history: the seqnos pop_seqno handed out, in order     *)
(* sstatus          "ok", "panicked", "error" (send_to failed) or "done"   *)
(***************************************************************************)
VARIABLES overflow_checks,
          q1, q2, net1, net2, nops, pc, status, out,
          ot, trace, hist, ostatus,
          dquack, dlog, indexes, dpc, dres, dstatus,
          wq, wops, wbytes, wcopy, wpc, wout, wstatus,
          nack_frequency, next_seqno, buffer, clock, driver, spc,
          scall, nacks, recvd, popped, sstatus

mainVars == <<q1, q2, net1, net2, nops, pc, status, out>>
orderVars == <<ot, trace, hist, ostatus>>
decodedVars == <<dquack, dlog, indexes, dpc, dres, dstatus>>
wireVars == <<wq, wops, wbytes, wcopy, wpc, wout, wstatus>>
serverVars == <<nack_frequency, next_seqno, buffer, clock, driver, spc,
                scall, nacks, recvd, popped, sstatus>>
vars == <<overflow_checks, mainVars, orderVars, decodedVars, wireVars, serverVars>>

Logs == UNION {[1..n -> Ids] : n \in 0..MaxLog}
BufVals == {0, 1}
Buffers == UNION {[1..n -> BufVals] : n \in 0..MaxBuf}
DLogs == UNION {[1..n -> Ids] : n \in 0..MaxDLog}
WireLogs == UNION {[1..n -> Ids] : n \in 0..MaxWireLog}

NoOut == [op |-> "none"]
Status(panicked) == IF panicked THEN "panicked" ELSE "ok"

\* A sketch that has seen n inserts of identifier PrefillId since new(t):
\* each power sum is n * v^k mod p, the count is n.  A sender and a receiver
\* that have run for a while are in such a state.
PrefillId == 1
Prefilled(t, n) ==
    [inverse_table |-> modular_inverse_table(t),
     power_sums |-> [k \in 1..t |-> MMul(MNew(n % P), MPow(MNew(PrefillId), k))],
     count |-> n]
\* Counts a few inserts below the top of u16.
Prefill == U16Max - 2
OrderPrefill == U16Max - 1
\* A count whose two bytes differ and are both non-zero.
WirePrefill == 258

EmptyNet == [v \in Ids |-> 0]
NetAdd(net, v) == [net EXCEPT ![v] = @ + 1]

\* The variables of the scenarios a specification does not run.
MainIdle ==
    /\ q1 = new(1) /\ q2 = new(1) /\ net1 = EmptyNet /\ net2 = EmptyNet
    /\ nops = 0 /\ pc = "idle" /\ status = "ok" /\ out = NoOut
OrderIdle ==
    /\ ot = 1 /\ trace = << >> /\ hist = << >> /\ ostatus = "idle"
DecodedIdle ==
    /\ dquack = new(1) /\ dlog = << >> /\ indexes = << >>
    /\ dpc = "idle" /\ dres = NoOut /\ dstatus = "ok"
WireIdle ==
    /\ wq = new(1) /\ wops = 0 /\ wbytes = << >> /\ wcopy = new(1)
    /\ wpc = "idle" /\ wout = NoOut /\ wstatus = "ok"
ServerIdle ==
    /\ nack_frequency = 0 /\ next_seqno = 1 /\ buffer = << >> /\ clock = 0
    /\ driver = "idle" /\ spc = "idle" /\ scall = NoOut
    /\ nacks = << >> /\ recvd = {} /\ popped = << >> /\ sstatus = "ok"

(***************************************************************************)
(* Spec: a sender's and a receiver's sketch, their difference, decoding.   *)
(***************************************************************************)
Init ==
    /\ overflow_checks \in BOOLEAN
    /\ \E t1 \in Thresholds, t2 \in Thresholds, n \in {0, Prefill} :
          /\ q1 = Prefilled(t1, n)
          /\ q2 = Prefilled(t2, n)
          /\ net1 = [EmptyNet EXCEPT ![PrefillId] = n]
          /\ net2 = [EmptyNet EXCEPT ![PrefillId] = n]
    /\ nops = 0
    /\ pc = "build"
    /\ status = "ok"
    /\ out = NoOut
    /\ OrderIdle
    /\ DecodedIdle
    /\ WireIdle
    /\ ServerIdle

\* q1.insert(v)
Insert1(v) ==
    /\ pc = "build" /\ status = "ok" /\ nops < MaxOps
    /\ \E r \in {insert(q1, v, overflow_checks)} :
           /\ q1' = r.q
           /\ status' = Status(r.panicked)
    /\ net1' = NetAdd(net1, v)
    /\ nops' = nops + 1
    /\ UNCHANGED <<overflow_checks, q2, net2, pc, out, orderVars, decodedVars, wireVars, serverVars>>

\* q2.insert(v)
Insert2(v) ==
    /\ pc = "build" /\ status = "ok" /\ nops < MaxOps
    /\ \E r \in {insert(q2, v, overflow_checks)} :
           /\ q2' = r.q
           /\ status' = Status(r.panicked)
    /\ net2' = NetAdd(net2, v)
    /\ nops' = nops + 1
    /\ UNCHANGED <<overflow_checks, q1, net1, pc, out, orderVars, decodedVars, wireVars, serverVars>>

\* q1 -= q2.clone()
SubAssign ==
    /\ pc = "build" /\ status = "ok"
    /\ \E r \in {sub_assign(q1, q2)} :
           /\ q1' = r.q
           /\ status' = Status(r.panicked)
    /\ pc' = "diff"
    /\ UNCHANGED <<overflow_checks, q2, net1, net2, nops, out, orderVars, decodedVars, wireVars, serverVars>>

\* q1.decode_with_log(&log)
DecodeWithLog(log) ==
    /\ pc = "diff" /\ status = "ok" /\ out = NoOut
    /\ \E r \in {decode_with_log(q1, log)} :
           /\ out' = [op |-> "decode_with_log", log |-> log,
                      missing |-> r.missing, converted |-> r.converted]
           /\ status' = Status(r.panicked)
    /\ UNCHANGED <<overflow_checks, q1, q2, net1, net2, nops, pc, orderVars, decodedVars, wireVars, serverVars>>

\* q1.decode_by_factorization()
DecodeByFactorization ==
    /\ pc = "diff" /\ status = "ok" /\ out = NoOut
    /\ \E r \in {decode_by_factorization(q1)} :
           /\ out' = [op |-> "decode_by_factorization", some |-> r.some,
                      roots |-> r.roots, converted |-> r.converted]
           /\ status' = Status(r.panicked)
    /\ UNCHANGED <<overflow_checks, q1, q2, net1, net2, nops, pc, orderVars, decodedVars, wireVars, serverVars>>

\* q1.to_coeffs()
ToCoeffs ==
    /\ pc = "diff" /\ status = "ok" /\ out = NoOut
    /\ \E r \in {to_coeffs(q1)} :
           /\ out' = [op |-> "to_coeffs", coeffs |-> r.coeffs]
           /\ status' = Status(r.panicked)
    /\ UNCHANGED <<overflow_checks, q1, q2, net1, net2, nops, pc, orderVars, decodedVars, wireVars, serverVars>>

\* q1.to_coeffs_preallocated(&mut buf)
ToCoeffsPreallocated(buf) ==
    /\ pc = "diff" /\ status = "ok" /\ out = NoOut
    /\ \E r \in {to_coeffs_preallocated(q1, buf)} :
           /\ out' = [op |-> "to_coeffs_preallocated", buf |-> buf,
                      coeffs |-> r.coeffs]
           /\ status' = Status(r.panicked)
    /\ UNCHANGED <<overflow_checks, q1, q2, net1, net2, nops, pc, orderVars, decodedVars, wireVars, serverVars>>

Next ==
    \/ \E v \in Ids : Insert1(v)
    \/ \E v \in Ids : Insert2(v)
    \/ SubAssign
    \/ \E log \in Logs : DecodeWithLog(log)
    \/ DecodeByFactorization
    \/ ToCoeffs
    \/ \E buf \in Buffers : ToCoeffsPreallocated(buf)

Spec == Init /\ [][Next]_vars

(***************************************************************************)
(* SpecOrder: one sketch under insert and remove calls in every order.     *)
(***************************************************************************)
InitOrder ==
    /\ overflow_checks \in BOOLEAN
    /\ \E t \in Thresholds, n \in {0, OrderPrefill} :
          /\ ot = t
          /\ hist = <<Prefilled(t, n)>>
    /\ trace = << >>
    /\ ostatus = "ok"
    /\ MainIdle
    /\ DecodedIdle
    /\ WireIdle
    /\ ServerIdle

Current == hist[Len(hist)]

\* quack.insert(v)
OInsert(v) ==
    /\ ostatus = "ok" /\ Len(trace) < MaxTrace
    /\ \E r \in {insert(Current, v, overflow_checks)} :
           /\ hist' = Append(hist, r.q)
           /\ ostatus' = Status(r.panicked)
    /\ trace' = Append(trace, [op |-> "insert", v |-> v])
    /\ UNCHANGED <<overflow_checks, ot, mainVars, decodedVars, wireVars, serverVars>>

\* quack.remove(v)
ORemove(v) ==
    /\ ostatus = "ok" /\ Len(trace) < MaxTrace
    /\ \E r \in {remove(Current, v, overflow_checks)} :
           /\ hist' = Append(hist, r.q)
           /\ ostatus' = Status(r.panicked)
    /\ trace' = Append(trace, [op |-> "remove", v |-> v])
    /\ UNCHANGED <<overflow_checks, ot, mainVars, decodedVars, wireVars, serverVars>>

NextOrder ==
    \/ \E v \in Ids : OInsert(v)
    \/ \E v \in Ids : ORemove(v)

SpecOrder == InitOrder /\ [][NextOrder]_vars

(***************************************************************************)
(* SpecDecoded: a sketch is filled, DecodedQuack::decode is called on it   *)
(* and a log, and then one accessor of the DecodedQuack.                   *)
(***************************************************************************)
InitDecoded ==
    /\ overflow_checks \in BOOLEAN
    /\ \E t \in Thresholds : dquack = new(t)
    /\ dlog = << >>
    /\ indexes = << >>
    /\ dpc = "build"
    /\ dres = NoOut
    /\ dstatus = "ok"
    /\ MainIdle
    /\ OrderIdle
    /\ WireIdle
    /\ ServerIdle

\* quack.insert(v)
DInsert(v) ==
    /\ dpc = "build" /\ dstatus = "ok" /\ dquack.count < MaxMissing
    /\ \E r \in {insert(dquack, v, overflow_checks)} :
           /\ dquack' = r.q
           /\ dstatus' = Status(r.panicked)
    /\ UNCHANGED <<overflow_checks, dlog, indexes, dpc, dres, mainVars, orderVars, wireVars, serverVars>>

\* DecodedQuack::decode(&quack, &log)
DDecode(log) ==
    /\ dpc = "build" /\ dstatus = "ok"
    /\ \E r \in {decode(dquack, log)} :
           /\ indexes' = r.indexes
           /\ dstatus' = Status(r.panicked)
    /\ dlog' = log
    /\ dpc' = "decoded"
    /\ UNCHANGED <<overflow_checks, dquack, dres, mainVars, orderVars, wireVars, serverVars>>

Accessor(name, r) ==
    /\ dpc = "decoded" /\ dstatus = "ok" /\ dres = NoOut
    /\ dres' = [op |-> name, value |-> r.value]
    /\ dstatus' = Status(r.panicked)
    /\ UNCHANGED <<overflow_checks, dquack, dlog, indexes, dpc, mainVars, orderVars, wireVars, serverVars>>

DNumSuffix == \E r \in {num_suffix(indexes, dlog, overflow_checks)} :
                  Accessor("num_suffix", r)
DNumMissing == \E r \in {num_missing(indexes, dlog, overflow_checks)} :
                  Accessor("num_missing", r)
DTotalNumMissing == Accessor("total_num_missing",
                             [value |-> total_num_missing(indexes), panicked |-> FALSE])
DMissing == \E r \in {missing(indexes, dlog, overflow_checks)} :
                  Accessor("missing", r)

NextDecoded ==
    \/ \E v \in Ids : DInsert(v)
    \/ \E log \in DLogs : DDecode(log)
    \/ DNumSuffix
    \/ DNumMissing
    \/ DTotalNumMissing
    \/ DMissing

SpecDecoded == InitDecoded /\ [][NextDecoded]_vars

(***************************************************************************)
(* SpecWire: a sketch is built, serialized and deserialized; then the same *)
(* sketch may be subtracted from the original and from the copy, and one   *)
(* read-only call is made on both.                                         *)
(***************************************************************************)
InitWire ==
    /\ overflow_checks \in BOOLEAN
    /\ \E t \in Thresholds, n \in {0, WirePrefill} : wq = Prefilled(t, n)
    /\ wops = 0
    /\ wbytes = << >>
    /\ wcopy = new(0)
    /\ wpc = "build"
    /\ wout = NoOut
    /\ wstatus = "ok"
    /\ MainIdle
    /\ OrderIdle
    /\ DecodedIdle
    /\ ServerIdle

\* quack.insert(v)
WInsert(v) ==
    /\ wpc = "build" /\ wstatus = "ok" /\ wops < MaxWire
    /\ wops' = wops + 1
    /\ \E r \in {insert(wq, v, overflow_checks)} :
           /\ wq' = r.q
           /\ wstatus' = Status(r.panicked)
    /\ UNCHANGED <<overflow_checks, wbytes, wcopy, wpc, wout,
                   mainVars, orderVars, decodedVars, serverVars>>

\* quack.remove(v)
WRemove(v) ==
    /\ wpc = "build" /\ wstatus = "ok" /\ wops < MaxWire
    /\ wops' = wops + 1
    /\ \E r \in {remove(wq, v, overflow_checks)} :
           /\ wq' = r.q
           /\ wstatus' = Status(r.panicked)
    /\ UNCHANGED <<overflow_checks, wbytes, wcopy, wpc, wout,
                   mainVars, orderVars, decodedVars, serverVars>>

\* let bytes = bincode::serialize(&quack).unwrap();
WSerialize ==
    /\ wpc = "build" /\ wstatus = "ok"
    /\ wbytes' = serialize(wq)
    /\ wpc' = "sent"
    /\ UNCHANGED <<overflow_checks, wq, wops, wcopy, wout, wstatus,
                   mainVars, orderVars, decodedVars, serverVars>>

\* let copy: PowerSumQuack = bincode::deserialize(&bytes).unwrap();
WDeserialize ==
    /\ wpc = "sent" /\ wstatus = "ok"
    /\ \E r \in {deserialize(wbytes)} :
           /\ wcopy' = r.q
           /\ wstatus' = Status(~r.ok)
    /\ wpc' = "received"
    /\ UNCHANGED <<overflow_checks, wq, wops, wbytes, wout,
                   mainVars, orderVars, decodedVars, serverVars>>

\* quack -= rhs.clone(); copy -= rhs;
WSubAssign(rhs) ==
    /\ wpc = "received" /\ wstatus = "ok" /\ wout = NoOut
    /\ \E r \in {sub_assign(wq, rhs)}, rc \in {sub_assign(wcopy, rhs)} :
           /\ wq' = r.q
           /\ wcopy' = rc.q
           /\ wstatus' = Status(r.panicked \/ rc.panicked)
    /\ wpc' = "diff"
    /\ UNCHANGED <<overflow_checks, wops, wbytes, wout,
                   mainVars, orderVars, decodedVars, serverVars>>

\* quack.to_coeffs() and copy.to_coeffs()
WToCoeffs ==
    /\ wpc \in {"received", "diff"} /\ wstatus = "ok" /\ wout = NoOut
    /\ wout' = [op |-> "to_coeffs", orig |-> to_coeffs(wq), copy |-> to_coeffs(wcopy)]
    /\ UNCHANGED <<overflow_checks, wq, wops, wbytes, wcopy, wpc, wstatus,
                   mainVars, orderVars, decodedVars, serverVars>>

\* quack.decode_with_log(&log) and copy.decode_with_log(&log)
WDecodeWithLog(log) ==
    /\ wpc \in {"received", "diff"} /\ wstatus = "ok" /\ wout = NoOut
    /\ wout' = [op |-> "decode_with_log", log |-> log,
                orig |-> decode_with_log(wq, log), copy |-> decode_with_log(wcopy, log)]
    /\ UNCHANGED <<overflow_checks, wq, wops, wbytes, wcopy, wpc, wstatus,
                   mainVars, orderVars, decodedVars, serverVars>>

\* The sketches subtracted: new(t) after at most one insert.
WireRhs == {new(threshold(wq))} \cup {insert(new(threshold(wq)), v, FALSE).q : v \in Ids}

NextWire ==
    \/ \E v \in Ids : WInsert(v)
    \/ \E v \in Ids : WRemove(v)
    \/ WSerialize
    \/ WDeserialize
    \/ \E rhs \in WireRhs : WSubAssign(rhs)
    \/ WToCoeffs
    \/ \E log \in WireLogs : WDecodeWithLog(log)

SpecWire == InitWire /\ [][NextWire]_vars

(***************************************************************************)
(* SpecServer: the WebRTC server's BufferedPackets.  With driver "main"    *)
(* the calls come as main's loop makes them: recv_seqno, pop_seqno until   *)
(* it returns None, send_nacks with the Instant recv_seqno got.  With      *)
(* driver "free" the three methods are called in any order.  Instants are  *)
(* taken from a clock that never goes back.                                *)
(***************************************************************************)
InitServer ==
    /\ overflow_checks = FALSE
    /\ nack_frequency \in 0..MaxRtt
    /\ next_seqno = 1
    /\ buffer = << >>
    /\ clock = 0
    /\ driver \in {"main", "free"}
    /\ spc = "recv"
    /\ scall = NoOut
    /\ nacks = << >>
    /\ recvd = {}
    /\ popped = << >>
    /\ sstatus = "ok"
    /\ MainIdle
    /\ OrderIdle
    /\ DecodedIdle
    /\ WireIdle

Received(buf) == {buf[i].seqno : i \in {j \in 1..Len(buf) : is_some(buf[j].time_recv)}}

\* let now = Instant::now(); pkts.recv_seqno(seqno, now);
RecvSeqno(seqno, now) ==
    /\ sstatus = "ok" /\ now >= clock
    /\ driver = "main" => spc = "recv"
    /\ \E r \in {recv_seqno(next_seqno, buffer, seqno, now)} :
           /\ buffer' = r.buffer
           /\ sstatus' = Status(r.panicked)
           /\ recvd' = recvd \cup Received(r.buffer)
    /\ clock' = now
    /\ scall' = [op |-> "recv_seqno", seqno |-> seqno]
    /\ spc' = IF driver = "main" THEN "pop" ELSE spc
    /\ UNCHANGED <<overflow_checks, nack_frequency, next_seqno, driver, nacks, popped,
                   mainVars, orderVars, decodedVars, wireVars>>

\* pkts.pop_seqno(), in main the condition of `while let Some(time_recv)`
PopSeqno ==
    /\ sstatus = "ok"
    /\ driver = "main" => spc = "pop"
    /\ \E r \in {pop_seqno(next_seqno, buffer)} :
           /\ next_seqno' = r.next_seqno
           /\ buffer' = r.buffer
           /\ popped' = IF is_some(r.result) THEN Append(popped, buffer[1].seqno) ELSE popped
           /\ scall' = [op |-> "pop_seqno", some |-> is_some(r.result)]
           /\ spc' = IF driver = "main" /\ is_none(r.result) THEN "nack" ELSE spc
    /\ UNCHANGED <<overflow_checks, nack_frequency, clock, driver, nacks, recvd, sstatus,
                   mainVars, orderVars, decodedVars, wireVars>>

\* pkts.send_nacks(now).await?
SendNacks(now) ==
    /\ sstatus = "ok" /\ now >= clock
    /\ driver = "main" => (spc = "nack" /\ now = clock)
    /\ \E fail \in 0..Len(buffer) :
       \E r \in {send_nacks(buffer, now, nack_frequency, fail)} :
           /\ buffer' = r.buffer
           /\ nacks' = nacks \o [i \in 1..Len(r.sent) |->
                                   [seqno |-> r.sent[i], time |-> now, received |-> recvd]]
           /\ sstatus' = IF r.err THEN "error" ELSE "ok"
    /\ clock' = now
    /\ scall' = [op |-> "send_nacks", now |-> now]
    /\ spc' = IF driver = "main" THEN "recv" ELSE spc
    /\ UNCHANGED <<overflow_checks, nack_frequency, next_seqno, driver, recvd, popped,
                   mainVars, orderVars, decodedVars, wireVars>>

\* main receives TIMEOUT_SEQNO: break, then stats.print_statistics().  stats
\* holds one value per packet pop_seqno handed out.
Timeout ==
    /\ sstatus = "ok"
    /\ driver = "main" /\ spc = "recv"
    /\ sstatus' = IF print_statistics(Len(popped)).panicked THEN "panicked" ELSE "done"
    /\ scall' = [op |-> "timeout"]
    /\ UNCHANGED <<overflow_checks, nack_frequency, next_seqno, buffer, clock, driver, spc,
                   nacks, recvd, popped, mainVars, orderVars, decodedVars, wireVars>>

NextServer ==
    \/ \E seqno \in 0..MaxSeqno, now \in 0..MaxTime : RecvSeqno(seqno, now)
    \/ PopSeqno
    \/ \E now \in 0..MaxTime : SendNacks(now)
    \/ Timeout

SpecServer == InitServer /\ [][NextServer]_vars

(***************************************************************************)
(* Vocabulary of the properties.                                           *)
(***************************************************************************)
\* The calls `ops` (records [op, v]) applied in order to q by the program's
\* insert and remove; stops at the first panic.
RECURSIVE Run(_, _, _)
Run(q, ops, checks) ==
    IF Len(ops) = 0 THEN [q |-> q, panicked |-> FALSE]
    ELSE LET r == IF ops[1].op = "insert" THEN insert(q, ops[1].v, checks)
                  ELSE remove(q, ops[1].v, checks)
         IN  IF r.panicked THEN r ELSE Run(r.q, Tail(ops), checks)

\* A multiset of identifiers ([Ids -> Nat]) listed as a sequence, and its size.
RECURSIVE NetSeq(_, _)
NetSeq(net, v) ==
    IF v > MaxId THEN << >>
    ELSE [i \in 1..net[v] |-> v] \o NetSeq(net, v + 1)

RECURSIVE NetSize(_, _)
NetSize(net, v) == IF v > MaxId THEN 0 ELSE net[v] + NetSize(net, v + 1)

\* Q(S): new(t), then one insert per element of the multiset S.
QOf(t, net) ==
    Run(new(t), [i \in 1..NetSize(net, 0) |-> [op |-> "insert", v |-> NetSeq(net, 0)[i]]],
        FALSE).q

\* A \ B for the multisets A = net1 (inserted into q1), B = net2 (into q2).
Missing == [v \in Ids |-> net1[v] - net2[v]]
BSubsetA == \A v \in Ids : net2[v] <= net1[v]
SameThreshold == Len(q1.power_sums) = Len(q2.power_sums)

\* The sum over the multiset `net` of x^k, mod p, in plain integers.
RECURSIVE PowerSum(_, _, _)
PowerSum(net, k, v) ==
    IF v > MaxId THEN 0
    ELSE (net[v] * ((v ^ k) % P) + PowerSum(net, k, v + 1)) % P

\* SpecOrder: the number of insert(v) calls minus remove(v) calls among the
\* first n calls of trace, plus what the sketch held before them.
Before(v, n) ==
    (IF v = PrefillId THEN hist[1].count ELSE 0)
    + Cardinality({i \in 1..n : trace[i] = [op |-> "insert", v |-> v]})
    - Cardinality({i \in 1..n : trace[i] = [op |-> "remove", v |-> v]})
TraceNet == [v \in Ids |-> Before(v, Len(trace))]
\* Each remove has a matching earlier insert.
Matched == \A n \in 1..Len(trace) :
               trace[n].op = "remove" => Before(trace[n].v, n - 1) > 0

(***************************************************************************)
(* C1.  For B a sub-multiset of A with |A \ B| <= t, decode_with_log on    *)
(* Q(A) - Q(B) and a log returns exactly the entries of the log, in log    *)
(* order and with duplicates kept, that are congruent mod p to an element  *)
(* of A \ B.  Stated of every reachable state: Q(A) and Q(B) get built,    *)
(* the subtraction returns, and the decoder returns that sub-sequence.     *)
(***************************************************************************)
InMissing(x) == \E v \in Ids : Missing[v] > 0 /\ v % P = x % P
C1Case == BSubsetA /\ SameThreshold /\ NetSize(Missing, 0) <= Len(q1.power_sums)
C1_DecodeWithLogExact ==
    C1Case =>
        /\ (out = NoOut => status = "ok")
        /\ (out.op = "decode_with_log" =>
               /\ status = "ok"
               /\ out.missing = SelectSeq(out.log, InMissing))

\* The same with both sketches' counts kept from overflowing (at most
\* U16Max inserts each): holds.
NoCountOverflow == NetSize(net1, 0) <= U16Max /\ NetSize(net2, 0) <= U16Max
C1_DecodeWithLogExactBelowU16 ==
    NoCountOverflow => C1_DecodeWithLogExact

(***************************************************************************)
(* C3.  Homomorphism: with every element of A and of B inserted into q1    *)
(* and every element of B into q2 (equal thresholds), q1 - q2 has the      *)
(* power sums and the count of a sketch with only A inserted.              *)
(***************************************************************************)
C3Case == BSubsetA /\ SameThreshold
C3_Homomorphism ==
    C3Case =>
        /\ (out = NoOut => status = "ok")
        /\ (pc = "diff" /\ out = NoOut =>
               /\ q1.power_sums = QOf(Len(q1.power_sums), Missing).power_sums
               /\ q1.count = QOf(Len(q1.power_sums), Missing).count)

C3_HomomorphismBelowU16 ==
    NoCountOverflow => C3_Homomorphism

(***************************************************************************)
(* C4.  Newton conversion: for a sketch whose net multiset S has n         *)
(* elements and a zeroed buffer of length m, n <= m <= t < p,              *)
(* to_coeffs_preallocated leaves in c[0..n) the non-leading coefficients   *)
(* of prod_{s in S} (x - s), leaves c[n..m) zero, and the result           *)
(* evaluates to zero at every element of S.                                *)
(***************************************************************************)
IsZeroed(buf) == \A i \in 1..Len(buf) : buf[i] = MZero
C4Case ==
    /\ out.op = "to_coeffs_preallocated"
    /\ BSubsetA
    /\ IsZeroed(out.buf)
    /\ NetSize(Missing, 0) <= Len(out.buf)
    /\ Len(out.buf) <= Len(q1.power_sums)
C4Holds ==
    LET n == NetSize(Missing, 0)
        S == NetSeq(Missing, 0)
        monic == MonicFromRoots([i \in 1..n |-> S[i] % P])
    IN  /\ status = "ok"
        /\ Len(out.coeffs) = Len(out.buf)
        /\ \A i \in 1..n : out.coeffs[i] = monic[i]
        /\ \A i \in (n + 1)..Len(out.buf) : out.coeffs[i] = MZero
        /\ \A i \in 1..n : eval(out.coeffs, S[i]) = 0
C4_NewtonConversion == C4Case => C4Holds

\* The same for a buffer of at least one entry: holds.
C4_NewtonConversionNonEmptyBuffer ==
    C4Case /\ Len(out.buf) >= 1 => C4Holds

(***************************************************************************)
(* C2.  In every state reached from new(t) by inserts and removes in which *)
(* each remove has a matching earlier insert, power_sums has length t and  *)
(* power_sums[k] is the sum of x^(k+1) mod p over the net multiset, every  *)
(* stored value in [0, p).                                                 *)
(***************************************************************************)
C2_PowerSumsOfNetMultiset ==
    (Len(hist) > 0 /\ Matched) =>
        /\ Len(Current.power_sums) = ot
        /\ \A k \in 1..ot :
              /\ Current.power_sums[k] = PowerSum(TraceNet, k, 0)
              /\ Current.power_sums[k] \in Field

C2_Witness ==
    /\ Len(hist) > 0 /\ Matched
    /\ Len(trace) = 3
    /\ trace[1].op = "insert" /\ trace[2].op = "insert" /\ trace[3].op = "remove"
    /\ trace[1].v # trace[2].v
    /\ ot >= 2
    /\ Current.power_sums[2] # 0

(***************************************************************************)
(* C5.  insert and remove commute: the same calls made on new(t) in any    *)
(* two orders end in the same power_sums and the same count, also when a   *)
(* remove of an identifier comes before its insert.  Stated of a completed *)
(* run of calls and every reordering of it.                                *)
(***************************************************************************)
Reordered(p) == [i \in 1..Len(trace) |-> trace[p[i]]]
C5Case == Len(hist) > 0 /\ ostatus = "ok" /\ hist[1].count = 0
C5_AnyOrder ==
    C5Case =>
        \A p \in Permutations(1..Len(trace)) :
            LET r == Run(hist[1], Reordered(p), overflow_checks)
            IN  /\ ~r.panicked
                /\ r.q.power_sums = Current.power_sums
                /\ r.q.count = Current.count

\* The same for the reorderings that run without a panic: holds.
C5_AnyOrderThatCompletes ==
    C5Case =>
        \A p \in Permutations(1..Len(trace)) :
            LET r == Run(hist[1], Reordered(p), overflow_checks)
            IN  ~r.panicked =>
                    /\ r.q.power_sums = Current.power_sums
                    /\ r.q.count = Current.count

(***************************************************************************)
(* C6.  insert(v) followed by remove(v) on a sketch whose count is below   *)
(* 65535 leaves every power sum and the count as they were before the      *)
(* insert (and neither call panics).                                       *)
(***************************************************************************)
InsertThenRemove(i) ==
    /\ i + 1 <= Len(trace)
    /\ trace[i].op = "insert"
    /\ trace[i + 1] = [op |-> "remove", v |-> trace[i].v]
C6_InsertRemoveInverse ==
    \A i \in 1..Len(trace) :
        (InsertThenRemove(i) /\ hist[i].count < U16Max) =>
            /\ ~(i + 1 = Len(trace) /\ ostatus = "panicked")
            /\ hist[i + 2].power_sums = hist[i].power_sums
            /\ hist[i + 2].count = hist[i].count

C6_Witness ==
    /\ Len(trace) = 3
    /\ InsertThenRemove(2)
    /\ hist[2].count < U16Max
    /\ hist[2].count > 0
    /\ hist[3].power_sums # hist[2].power_sums
    /\ ostatus = "ok"

(***************************************************************************)
(* C7.  Suffix classification: with I the increasing list of log positions *)
(* DecodedQuack::decode finds as roots, num_suffix is the length of the    *)
(* longest tail of I that is exactly the run of consecutive positions      *)
(* ending at len(L)-1, total_num_missing is |I|, num_missing is their      *)
(* difference and missing() is the prefix of I of length num_missing.      *)
(***************************************************************************)
IsSuffixRun(I, n, k) ==
    \A j \in 1..k : I[Len(I) - k + j] = n - k + j - 1
SuffixLen(I, n) ==
    CHOOSE k \in 0..Len(I) :
        /\ IsSuffixRun(I, n, k)
        /\ \A k2 \in (k + 1)..Len(I) : ~IsSuffixRun(I, n, k2)
C7_SuffixClassification ==
    dpc = "decoded" =>
        LET I == indexes
            s == SuffixLen(I, Len(dlog))
        IN  /\ \A i \in 1..(Len(I) - 1) : I[i] < I[i + 1]
            /\ dres.op = "num_suffix" => dstatus = "ok" /\ dres.value = s
            /\ dres.op = "total_num_missing" => dstatus = "ok" /\ dres.value = Len(I)
            /\ dres.op = "num_missing" => dstatus = "ok" /\ dres.value = Len(I) - s
            /\ dres.op = "missing" => dstatus = "ok" /\ dres.value = SubSeq(I, 1, Len(I) - s)

\* The same with the cases left out in which every position of a non-empty
\* log is a root: holds.
AllPositionsRoots == Len(dlog) > 0 /\ Len(indexes) = Len(dlog)
C7_SuffixClassificationNotAllRoots ==
    ~AllPositionsRoots => C7_SuffixClassification

(***************************************************************************)
(* C8.  Subtracting a sketch of another threshold always fails, whatever   *)
(* the counts and contents, and the failure comes before any power sum or  *)
(* the count of the left operand is modified.                              *)
(***************************************************************************)
SubAssignStep == pc = "build" /\ pc' = "diff"
C8_ThresholdMismatchFailsFirst ==
    [][(SubAssignStep /\ ~SameThreshold) =>
           (status' = "panicked" /\ q1' = q1)]_vars

C8_Witness ==
    /\ pc = "diff" /\ status = "panicked" /\ out = NoOut
    /\ ~SameThreshold
    /\ q1.count > q2.count
    /\ q2.count > 0
    /\ q2.count < Prefill

C10_EmptySketchDecodesToNothing ==
    q1.count = 0 =>
        /\ out.op = "decode_with_log" =>
               status = "ok" /\ out.missing = << >> /\ ~out.converted
        /\ out.op = "decode_by_factorization" =>
               status = "ok" /\ out.some /\ out.roots = << >> /\ ~out.converted

C10_Witness ==
    /\ out.op = "decode_with_log"
    /\ q1.count = 0
    /\ \E k \in 1..Len(q1.power_sums) : q1.power_sums[k] # 0
    /\ Len(out.log) = MaxLog
    /\ out.missing = << >>
    /\ status = "ok"

(***************************************************************************)
(* C11.  to_coeffs on a sketch whose count is 0 returns the empty          *)
(* coefficient vector and does not fail.                                   *)
(***************************************************************************)
C11_ToCoeffsOfEmptySketch ==
    (out.op = "to_coeffs" /\ q1.count = 0) =>
        (status = "ok" /\ out.coeffs = << >>)

\* What the code does instead: the call always panics.
C11_ToCoeffsOfEmptySketchPanics ==
    (out.op = "to_coeffs" /\ q1.count = 0) => status = "panicked"

(***************************************************************************)
(* C12.  A sketch whose count exceeds its threshold is rejected when       *)
(* decoded: to_coeffs and decode_with_log on it fail and return neither a  *)
(* coefficient vector nor an identifier list.                              *)
(***************************************************************************)
C12Case ==
    /\ q1.count > Len(q1.power_sums)
    /\ out.op \in {"to_coeffs", "decode_with_log"}
C12_CountAboveThresholdRejected ==
    C12Case => status = "panicked"

C12_Witness ==
    /\ out.op = "decode_with_log"
    /\ q1.count = Len(q1.power_sums) + 1
    /\ Len(q1.power_sums) >= 2
    /\ Len(out.log) > 0
    /\ status = "panicked"

(***************************************************************************)
(* C13.  Serialization round trip: for every sketch reachable by inserts   *)
(* and removes, deserialize(serialize(q)) has the power_sums (same length, *)
(* same values) and the count of q.                                        *)
(***************************************************************************)
C13_SerializationRoundTrip ==
    (wpc = "received") =>
        /\ wstatus = "ok"
        /\ Len(wcopy.power_sums) = Len(wq.power_sums)
        /\ wcopy.power_sums = wq.power_sums
        /\ wcopy.count = wq.count

C13_Witness ==
    /\ wpc = "received"
    /\ Len(wbytes) = 8 + 4 * 3 + 2
    /\ wq.count = WirePrefill + 1
    /\ wq.power_sums[1] # wq.power_sums[2]
    /\ wcopy.count = wq.count

(***************************************************************************)
(* C14.  Every sketch, also a deserialized one, holds an inverse table of  *)
(* length t with entry k equal to (k+1)^-1 mod p, so that to_coeffs and    *)
(* decode_with_log on a deserialized sketch, or on a difference whose left *)
(* operand was deserialized, give the result they give on the original.    *)
(***************************************************************************)
HasInverseTable(q) ==
    /\ Len(q.inverse_table) = Len(q.power_sums)
    /\ \A k \in 1..Len(q.inverse_table) : MMul(q.inverse_table[k], MNew(k)) = 1
C14_InverseTableAfterDeserialization ==
    (wpc \in {"received", "diff"}) =>
        /\ HasInverseTable(wq)
        /\ HasInverseTable(wcopy)
        /\ wout.op \in {"to_coeffs", "decode_with_log"} => wout.copy = wout.orig

\* What does hold: the copy's inverse table is empty, and the calls agree
\* whenever the count is at most 1 or above the threshold.
C14_CopyHasNoInverseTable ==
    (wpc \in {"received", "diff"}) =>
        /\ HasInverseTable(wq)
        /\ wcopy.inverse_table = << >>
        /\ (wout.op \in {"to_coeffs", "decode_with_log"}
             /\ (wq.count <= 1 \/ wq.count > Len(wq.power_sums))) =>
                wout.copy = wout.orig
        /\ (wout.op \in {"to_coeffs", "decode_with_log"}
             /\ wq.count >= 2 /\ wq.count <= Len(wq.power_sums)) =>
                (wout.copy.panicked /\ ~wout.orig.panicked)

(***************************************************************************)
(* C15.  After any sequence of inserts and removes in which no prefix has  *)
(* more removes than inserts, count is (inserts - removes) mod 2^16; an    *)
(* insert on a sketch whose count is 65535 succeeds, updates the power     *)
(* sums and wraps count to 0.                                              *)
(***************************************************************************)
Inserts(n) == hist[1].count + Cardinality({i \in 1..n : trace[i].op = "insert"})
Removes(n) == Cardinality({i \in 1..n : trace[i].op = "remove"})
NoPrefixDeficit == \A n \in 1..Len(trace) : Removes(n) <= Inserts(n)
C15Holds ==
    /\ ostatus = "ok"
    /\ Current.count = (Inserts(Len(trace)) - Removes(Len(trace))) % (U16Max + 1)
    /\ \A i \in 1..Len(trace) :
          (trace[i].op = "insert" /\ hist[i].count = U16Max) =>
              /\ hist[i + 1].count = 0
              /\ hist[i + 1].power_sums =
                     [k \in 1..ot |-> MAdd(hist[i].power_sums[k], MPow(MNew(trace[i].v), k))]
C15_CountWrapsMod2_16 ==
    (Len(hist) > 0 /\ NoPrefixDeficit) => C15Holds

\* The same in a build without overflow checks: holds.
C15_CountWrapsWithoutOverflowChecks ==
    (Len(hist) > 0 /\ NoPrefixDeficit /\ ~overflow_checks) => C15Holds

\* In a build with overflow checks the insert at count 65535 panics.
C15_InsertAtU16MaxPanics ==
    (Len(hist) > 0 /\ overflow_checks) =>
        \A i \in 1..Len(trace) :
            (trace[i].op = "insert" /\ hist[i].count = U16Max) =>
                (i = Len(trace) /\ ostatus = "panicked")

(***************************************************************************)
(* C19.  The coefficients to_coeffs_preallocated writes depend only on the *)
(* power sums and the length of the buffer: two buffers of the same length *)
(* n, 1 <= n <= t, with different prior contents hold the same             *)
(* coefficients after the call.                                            *)
(***************************************************************************)
C19Case ==
    /\ out.op = "to_coeffs_preallocated"
    /\ Len(out.buf) >= 1
    /\ Len(out.buf) <= Len(q1.power_sums)
C19_IndependentOfPriorContents ==
    C19Case =>
        /\ status = "ok"
        /\ \A b \in Buffers :
              Len(b) = Len(out.buf) => to_coeffs_preallocated(q1, b).coeffs = out.coeffs

\* What does hold: the call returns, entry 0 is independent of the prior
\* contents, and so is the whole result among buffers that agree from entry
\* 1 on.
C19_IndependentOfFirstEntryOnly ==
    C19Case =>
        /\ status = "ok"
        /\ \A b \in Buffers :
              Len(b) = Len(out.buf) =>
                  LET r == to_coeffs_preallocated(q1, b)
                  IN  /\ r.coeffs[1] = out.coeffs[1]
                      /\ Tail(b) = Tail(out.buf) => r.coeffs = out.coeffs

(***************************************************************************)
(* C20.  When every position of a non-empty log is decoded as missing,     *)
(* num_suffix returns len(L), num_missing returns 0 and missing() is       *)
(* empty, and the position counter `last` of num_suffix is never           *)
(* decremented below 0.                                                    *)
(***************************************************************************)
C20Case == dpc = "decoded" /\ AllPositionsRoots
C20_Values ==
    /\ dres.op = "num_suffix" => dstatus = "ok" /\ dres.value = Len(dlog)
    /\ dres.op = "num_missing" => dstatus = "ok" /\ dres.value = 0
    /\ dres.op = "missing" => dstatus = "ok" /\ dres.value = << >>
C20_AllPositionsMissing ==
    C20Case =>
        /\ C20_Values
        /\ dres.op \in {"num_suffix", "num_missing", "missing"} =>
               ~num_suffix(indexes, dlog, overflow_checks).underflow

\* What does hold: `last` is decremented at 0 in every such call; the call
\* panics in a build with overflow checks and returns the values of the
\* claim in a build without.
C20_LastUnderflows ==
    (C20Case /\ dres.op \in {"num_suffix", "num_missing", "missing"}) =>
        /\ num_suffix(indexes, dlog, overflow_checks).underflow
        /\ overflow_checks => dstatus = "panicked"
        /\ ~overflow_checks => C20_Values

(***************************************************************************)
(* C16.  Loss detection: the server (main's receive loop) sends a NACK for *)
(* sequence number s only when s has not been received and at least 3      *)
(* packets with sequence numbers greater than s have been received.        *)
(***************************************************************************)
LaterReceived(n) == {r \in n.received : r > n.seqno}
C16_NackAfterThreeLaterPackets ==
    driver = "main" =>
        \A i \in 1..Len(nacks) :
            /\ nacks[i].seqno \notin nacks[i].received
            /\ Cardinality(LaterReceived(nacks[i])) >= 3

\* What does hold, in either order of calls: s has not been received and at
\* least one packet with a greater sequence number has.
C16_NackAfterOneLaterPacket ==
    \A i \in 1..Len(nacks) :
        /\ nacks[i].seqno \notin nacks[i].received
        /\ Cardinality(LaterReceived(nacks[i])) >= 1

(***************************************************************************)
(* C17.  Buffer invariant: after any sequence of recv_seqno and pop_seqno  *)
(* calls a non-empty buffer holds exactly the consecutive sequence numbers *)
(* next_seqno, next_seqno+1, ... and its last packet is marked received;   *)
(* recv_seqno never reaches unreachable!(); a seqno below next_seqno or    *)
(* already received changes nothing; pop_seqno hands out the packets       *)
(* 1, 2, 3, ... in this order, each once.                                  *)
(***************************************************************************)
BufferConsecutive ==
    Len(buffer) > 0 =>
        /\ \A i \in 1..Len(buffer) : buffer[i].seqno = next_seqno + i - 1
        /\ is_some(buffer[Len(buffer)].time_recv)
PoppedInOrder ==
    /\ popped = [i \in 1..Len(popped) |-> i]
    /\ next_seqno = Len(popped) + 1
RecvNeverUnreachable == scall.op = "recv_seqno" => sstatus = "ok"
RecvOfOldChangesNothing ==
    (scall'.op = "recv_seqno" /\ sstatus = "ok"
     /\ (scall'.seqno < next_seqno \/ scall'.seqno \in recvd)) =>
        (buffer' = buffer /\ next_seqno' = next_seqno /\ sstatus' = "ok")
C17_BufferInvariant ==
    /\ [](driver # "idle" => BufferConsecutive /\ PoppedInOrder /\ RecvNeverUnreachable)
    /\ [][driver # "idle" => RecvOfOldChangesNothing]_vars

C17_Witness ==
    /\ Len(buffer) >= 3
    /\ is_none(buffer[1].time_recv)
    /\ is_some(buffer[2].time_recv)
    /\ Len(popped) >= 1
    /\ scall.op = "recv_seqno"
    /\ scall.seqno < next_seqno

(***************************************************************************)
(* C18.  NACK retransmission: two successive NACKs sent for the same       *)
(* sequence number are more than nack_frequency apart in the times passed  *)
(* to send_nacks, and no NACK is sent for a sequence number after its      *)
(* packet was marked received.                                             *)
(***************************************************************************)
Successive(i, j) ==
    /\ i < j
    /\ nacks[i].seqno = nacks[j].seqno
    /\ \A k \in (i + 1)..(j - 1) : nacks[k].seqno # nacks[i].seqno
C18_NackRetransmission ==
    /\ \A i \in 1..Len(nacks), j \in 1..Len(nacks) :
          Successive(i, j) => nacks[j].time - nacks[i].time > nack_frequency
    /\ \A i \in 1..Len(nacks) : nacks[i].seqno \notin nacks[i].received

C18_Witness ==
    /\ nack_frequency = 1
    /\ \E i \in 1..Len(nacks), j \in 1..Len(nacks) :
          Successive(i, j) /\ nacks[i].seqno \in recvd
    /\ sstatus = "ok"

====
